---- MODULE Spec2Model ----
(***************************************************************************)
(* Model of the data acquisition pipeline of inep-ces-rs (src/files.rs):   *)
(* the per-year handle Ces, its pipeline ensure_data (existence check,     *)
(* download, archive selection, MD5 verification, ISO-8859-1 to UTF-8      *)
(* normalisation, persistence) and the fleet orchestrator ensure_all_data. *)
(*                                                                         *)
(* Abstractions:                                                           *)
(*  - a ZIP body is the list of its entries in file_names() order, or a    *)
(*    body ZipArchive::new rejects;                                        *)
(*  - OriginalCursos(y) is a short stand-in for the file INEP published    *)
(*    for year y; md5 is collision free on the contents of the model and   *)
(*    maps OriginalCursos(y) to the digest pinned for y;                   *)
(*  - a Rust String is its UTF-8 byte sequence.                            *)
(***************************************************************************)
EXTENDS Integers, Sequences, FiniteSets, TLC

(***************************************************************************)
(* Bounds of the model.                                                    *)
(***************************************************************************)
NumProcs == 2
MaxRuns == 2
MaxLen == 2

(***************************************************************************)
(* Program constants.                                                      *)
(***************************************************************************)
MinYear == 2009
FirstYear == 2009
EndYear == 2022
AllFirst == 2009
AllEnd == 2022
MaxU16 == 65535

MICRODATA_PREFIX == <<"M","I","C","R","O","D","A","D","O","S","_","C","A","D","A","S","T","R","O">>

name == <<"C","U","R","S","O","S">>

None == [some |-> FALSE, val |-> ""]

Some(v) == [some |-> TRUE, val |-> v]

original_md5(y) ==
    CASE y = 2009 -> Some("677421fb8ad9442370175cbadae05b77")
      [] y = 2010 -> Some("8ea106ef7dc41a27a43b9f246cfd3ffd")
      [] y = 2011 -> Some("f626dd6d17e8f31f78ddf90f680ace48")
      [] y = 2012 -> Some("f896c4a4e2b10adcf846d91486ab0ce8")
      [] y = 2013 -> Some("2bbfbe1a9afe1fe5d0d7384901ae3b7e")
      [] y = 2014 -> Some("bf70eb93a2a5cce0e0a48295c4834c20")
      [] y = 2015 -> Some("b5bd1b6b10b4f66f359deed4ac48cb80")
      [] y = 2016 -> Some("a9475f5f6815a5befb8bc91b8e2c7b1c")
      [] y = 2017 -> Some("af97168b2d83b0e4b6c1572e619c183b")
      [] y = 2018 -> Some("b852881daa9328e4ff3f3a2c6115ba51")
      [] y = 2019 -> Some("f80ea1eddafae4780728e6fb26aa549f")
      [] y = 2020 -> Some("a84c1efeedd8bcec4848ec8217b92b98")
      [] y = 2021 -> Some("05d78ff911cea316cd65f08b0e93e83d")
      [] OTHER -> None

(***************************************************************************)
(* Strings as character sequences: str::contains is a substring test.      *)
(***************************************************************************)
contains(s, pat) ==
    \E i \in 1..(Len(s) - Len(pat) + 1) : SubSeq(s, i, i + Len(pat) - 1) = pat

(***************************************************************************)
(* Contents.  OriginalCursos(y) stands for the published Cursos file of    *)
(* year y (it holds a byte above 127, so that normalisation is visible).   *)
(***************************************************************************)
OriginalCursos(y) == <<y - 2000, 59, 233>>

TamperedCursos == <<120>>

md5_hex(bytes) ==
    IF \E y \in MinYear..(EndYear - 1) : bytes = OriginalCursos(y)
    THEN original_md5(CHOOSE y \in MinYear..(EndYear - 1) : bytes = OriginalCursos(y)).val
    ELSE IF bytes = <<>> THEN "d41d8cd98f00b204e9800998ecf8427e"
    ELSE IF bytes = <<120>> THEN "9dd4e461268c8034f5c8564e155c67a6"
    ELSE "93b885adfe0da089cdf634904fd59f71"

(***************************************************************************)
(* iso_8559_1_to_utf8: every byte c becomes the char of code point c; the  *)
(* String holds its UTF-8 encoding (one byte below 128, two bytes above).  *)
(***************************************************************************)
encode_utf8_raw(cp) == <<cp>>

encode_utf8(cp) ==
    IF cp < 128 THEN <<cp>> ELSE <<192 + (cp \div 64), 128 + (cp % 64)>>

RECURSIVE iso_8559_1_to_utf8(_)
iso_8559_1_to_utf8(bytes) ==
    IF bytes = <<>> THEN <<>>
    ELSE encode_utf8(Head(bytes)) \o iso_8559_1_to_utf8(Tail(bytes))

(***************************************************************************)
(* Paths.  A path is the sequence of its components; the file name keeps   *)
(* the year it interpolates.  The operating system resolves "./input/f"    *)
(* and "input/f" to the same file.                                         *)
(***************************************************************************)
csv_name_no_year(y) == [prefix |-> "cursos.", year |-> 0, suffix |-> ".csv"]

csv_name(y) == [prefix |-> "cursos.", year |-> y, suffix |-> ".csv"]

path(y) == <<"input", csv_name(y)>>

save_path_output(y) == <<".", "output", csv_name(y)>>

save_path(y) == <<".", "input", csv_name(y)>>

resolve(p) == IF Head(p) = "." THEN Tail(p) ELSE p

(***************************************************************************)
(* Ces::url: the template with the year written in decimal.                *)
(***************************************************************************)
RECURSIVE to_string(_)
to_string(n) ==
    LET digit == <<"0","1","2","3","4","5","6","7","8","9">>[(n % 10) + 1]
    IN  IF n < 10 THEN <<digit>> ELSE Append(to_string(n \div 10), digit)

url_short_year(y) ==
    <<"https://download.inep.gov.br/microdados/microdados_censo_da_educacao_superior_",
      to_string(y % 100), ".zip">>

url(y) ==
    <<"https://download.inep.gov.br/microdados/microdados_censo_da_educacao_superior_",
      to_string(y), ".zip">>

(***************************************************************************)
(* Ces::new: the handle, or a panic for a year before 2009.                *)
(***************************************************************************)
new_after_2009(y) ==
    IF y <= MinYear THEN [panics |-> TRUE, year |-> 0]
    ELSE [panics |-> FALSE, year |-> y]

new(y) ==
    IF y < MinYear THEN [panics |-> TRUE, year |-> 0]
    ELSE [panics |-> FALSE, year |-> y]

year(self) == self.year

\* Ces::all: the handles of 2009..2022, in order.
all == [i \in 1..(AllEnd - AllFirst) |-> new(AllFirst + i - 1)]

(***************************************************************************)
(* What the origin server can answer.                                      *)
(***************************************************************************)
CursosName == MICRODATA_PREFIX \o <<"_">> \o name \o <<".","C","S","V">>

SwappedName == name \o <<"_">> \o MICRODATA_PREFIX \o <<".","C","S","V">>

IesName == MICRODATA_PREFIX \o <<"_","I","E","S",".","C","S","V">>

LowerName == <<"m","i","c","r","o","d","a","d","o","s","_","c","a","d","a","s","t","r","o","_","c","u","r","s","o","s",".","c","s","v">>

Entry(n, d, ok) == [name |-> n, data |-> d, readable |-> ok]

Archive(es) == [zip |-> TRUE, entries |-> es]

NotAnArchive == [zip |-> FALSE, entries |-> <<>>]

Bodies(y) ==
    { Archive(<<Entry(IesName, <<>>, TRUE), Entry(CursosName, OriginalCursos(y), TRUE)>>),
      Archive(<<Entry(SwappedName, OriginalCursos(y), TRUE)>>),
      Archive(<<Entry(CursosName, TamperedCursos, TRUE)>>),
      Archive(<<Entry(CursosName, OriginalCursos(y), FALSE)>>),
      Archive(<<Entry(IesName, OriginalCursos(y), TRUE), Entry(LowerName, OriginalCursos(y), TRUE)>>),
      Archive(<<Entry(CursosName, TamperedCursos, TRUE), Entry(SwappedName, OriginalCursos(y), TRUE)>>),
      Archive(<<Entry(SwappedName, OriginalCursos(y), TRUE), Entry(CursosName, TamperedCursos, TRUE)>>),
      NotAnArchive }

Statuses == {200, 404}

(***************************************************************************)
(* State.                                                                  *)
(***************************************************************************)
VARIABLES
    fs,          \* resolved path -> [exists, data]: the files under input/
    inputDir,    \* "missing", "ok" or "denied": the directory input
    pc,          \* where each call of Ces::new(y).ensure_data() stands
    yr,          \* the year each call passes to Ces::new
    ces,         \* the handle Ces::new returned
    atStart,     \* the file at the year's path when ensure_data began
    run,         \* how many times the call has been started
    status,      \* the HTTP status of the response received (0: none)
    zip,         \* the body zip() returned
    names,       \* the filtered entry names
    bytes,       \* the bytes read from the selected entry
    downloaded_md5,
    cursos,      \* the normalised String
    outcome,     \* how the call ended
    netCalls,    \* requests sent by the call, over all its runs
    writeCalls,  \* files created by the call, over all its runs
    trace,       \* the stages of the current run, in order
    hist,        \* one record per finished run
    orch,        \* where ensure_all_data stands
    completed,   \* the finished tasks join_next has not yet returned
    joined,      \* the tasks join_next has returned
    requested,   \* the URLs each call has sent a request to
    touched      \* the files each call has checked or written

vars == <<fs, inputDir, pc, yr, ces, atStart, run, status, zip, names, bytes, downloaded_md5,
          cursos, outcome, netCalls, writeCalls, trace, hist, orch, completed, joined,
          requested, touched>>

Procs == 1..NumProcs

NoFile == [exists |-> FALSE, data |-> <<>>]

File(d) == [exists |-> TRUE, data |-> d]

NoBytes == [some |-> FALSE, val |-> <<>>]

SomeBytes(b) == [some |-> TRUE, val |-> b]

\* The file a path leads to, and the file system after a write to a path.
file_at(pth) == IF resolve(pth) \in DOMAIN fs THEN fs[resolve(pth)] ELSE NoFile

put_file(pth, d) ==
    [q \in DOMAIN fs \cup {resolve(pth)} |-> IF q = resolve(pth) THEN File(d) ELSE fs[q]]

locals == <<status, zip, names, bytes, downloaded_md5, cursos>>

counters == <<netCalls, writeCalls>>

fleet == <<orch, joined>>

(***************************************************************************)
(* Control: a call either moves on to its next step or returns.            *)
(***************************************************************************)
Goto(p, l) ==
    /\ pc' = [pc EXCEPT ![p] = l]
    /\ UNCHANGED <<outcome, completed, hist>>

Return(p, r) ==
    /\ pc' = [pc EXCEPT ![p] = "finished"]
    /\ outcome' = [outcome EXCEPT ![p] = r]
    /\ completed' = IF orch = "none" THEN completed ELSE Append(completed, p)
    /\ hist' = [hist EXCEPT ![p] = Append(@, [outcome |-> r,
                                               net |-> netCalls'[p],
                                               wr |-> writeCalls'[p],
                                               start |-> atStart'[p]])]

Stage(p, s) == trace' = [trace EXCEPT ![p] = Append(@, s)]

Found(y) == file_at(path(y))

(***************************************************************************)
(* The body of a call: Ces::new(year), then ensure_data().                 *)
(***************************************************************************)
CesNew(p) ==
    /\ pc[p] = "ready"
    /\ UNCHANGED <<fs, inputDir, yr, run, locals, counters, trace, fleet, requested, touched>>
    /\ IF new(yr[p]).panics
       THEN /\ UNCHANGED <<ces, atStart>>
            /\ Return(p, "panic_new")
       ELSE /\ ces' = [ces EXCEPT ![p] = [year |-> new(yr[p]).year]]
            /\ atStart' = [atStart EXCEPT ![p] = Found(year(ces'[p]))]
            /\ Goto(p, "check")

try_exists_blind(pth) ==
    IF inputDir = "denied" THEN [err |-> TRUE, val |-> FALSE]
    ELSE [err |-> FALSE, val |-> FALSE]

\* Path::try_exists: an error when the directory cannot be searched.
try_exists(pth) ==
    IF inputDir = "denied" THEN [err |-> TRUE, val |-> FALSE]
    ELSE [err |-> FALSE, val |-> file_at(pth).exists]

\* already_downloaded: try_exists on path(Cursos).
already_downloaded(p) ==
    /\ pc[p] = "check"
    /\ UNCHANGED <<fs, inputDir, yr, ces, atStart, run, locals, counters, trace, fleet, requested>>
    /\ touched' = [touched EXCEPT ![p] = @ \cup {resolve(path(year(ces[p])))}]
    /\ LET found == try_exists(path(year(ces[p])))
       IN  IF found.err
           THEN Return(p, "err_stat")
           ELSE IF found.val
                THEN Return(p, "ok")
                ELSE Goto(p, "request")

\* zip: build the client and send the request.
zip_send(p) ==
    /\ pc[p] = "request"
    /\ UNCHANGED <<fs, inputDir, yr, ces, atStart, run, locals, writeCalls, fleet, touched>>
    /\ \E built \in BOOLEAN :
         IF built
         THEN /\ netCalls' = [netCalls EXCEPT ![p] = @ + 1]
              /\ requested' = [requested EXCEPT ![p] = @ \cup {url(year(ces[p]))}]
              /\ Stage(p, "fetch_start")
              /\ Goto(p, "awaiting")
         ELSE /\ UNCHANGED <<netCalls, trace, requested>>
              /\ Return(p, "err_fetch")

zip_response_retry(p) ==
    /\ pc[p] = "awaiting"
    /\ UNCHANGED <<fs, inputDir, yr, ces, atStart, run, locals, counters, trace, fleet, requested, touched>>
    /\ Goto(p, "request")

\* zip: send() fails, bytes() fails, or the body is returned whatever the status.
zip_response(p) ==
    /\ pc[p] = "awaiting"
    /\ UNCHANGED <<fs, inputDir, yr, ces, atStart, run, names, bytes, downloaded_md5, cursos, counters, fleet, requested, touched>>
    /\ \/ /\ Return(p, "err_fetch")
          /\ UNCHANGED <<status, zip, trace>>
       \/ \E st \in Statuses, body \in Bodies(year(ces[p])) :
            /\ st = 404 => body \in {NotAnArchive, Archive(<<Entry(SwappedName, OriginalCursos(year(ces[p])), TRUE)>>)}
            /\ status' = [status EXCEPT ![p] = st]
            /\ zip' = [zip EXCEPT ![p] = body]
            /\ Stage(p, "fetch_end")
            /\ Goto(p, "open")

\* zip: no timeout is set, so a request the server never answers waits for ever.
zip_hang(p) ==
    /\ pc[p] = "awaiting"
    /\ UNCHANGED <<fs, inputDir, yr, ces, atStart, run, locals, counters, trace, fleet, requested, touched>>
    /\ Goto(p, "hung")

\* extract_cursos_microdata: ZipArchive::new.
archive_open(p) ==
    /\ pc[p] = "open"
    /\ UNCHANGED <<fs, inputDir, yr, ces, atStart, run, locals, counters, trace, fleet, requested, touched>>
    /\ IF zip[p].zip
       THEN Goto(p, "select")
       ELSE Return(p, "err_archive")

file_names(archive) == [i \in 1..Len(archive.entries) |-> archive.entries[i].name]

filter_names_prefix_only(archive) ==
    SelectSeq(file_names(archive), LAMBDA n : contains(n, MICRODATA_PREFIX))

filter_names(archive) ==
    SelectSeq(SelectSeq(file_names(archive), LAMBDA n : contains(n, MICRODATA_PREFIX)),
              LAMBDA n : contains(n, name))

\* extract_cursos_microdata: the names that pass both filters; none: bail.
select_names(p) ==
    /\ pc[p] = "select"
    /\ UNCHANGED <<fs, inputDir, yr, ces, atStart, run, status, zip, bytes, downloaded_md5, cursos, counters, fleet, requested, touched>>
    /\ names' = [names EXCEPT ![p] = filter_names(zip[p])]
    /\ Stage(p, "select")
    /\ IF names'[p] = <<>>
       THEN Return(p, "err_not_found")
       ELSE Goto(p, "read")

by_name(archive, n) ==
    archive.entries[CHOOSE i \in 1..Len(archive.entries) : archive.entries[i].name = n]

first_name_last(ns) == ns[Len(ns)]

\* for name in names: the body returns or bails in its first iteration.
first_name(ns) == Head(ns)

\* extract_cursos_microdata: read the first name's entry.
read_entry(p) ==
    /\ pc[p] = "read"
    /\ UNCHANGED <<fs, inputDir, yr, ces, atStart, run, status, zip, names, downloaded_md5, cursos, counters, trace, fleet, requested, touched>>
    /\ LET zip_file == by_name(zip[p], first_name(names[p]))
       IN  IF zip_file.readable
           THEN /\ bytes' = [bytes EXCEPT ![p] = SomeBytes(zip_file.data)]
                /\ Goto(p, "verify")
           ELSE /\ UNCHANGED bytes
                /\ Return(p, "err_read")

clone_normalized(p) == iso_8559_1_to_utf8(bytes[p].val)

\* The bytes md5::compute is given: a clone of the entry's bytes.
clone(p) == bytes[p].val

check_md5_logs_only(downloaded, y) ==
    IF ~original_md5(y).some THEN "err_no_md5" ELSE "ok"

check_md5_unwrap_or(downloaded, y) ==
    LET correct_md5 == original_md5(y)
    IN  IF correct_md5.some /\ downloaded # correct_md5.val THEN "err_wrong_md5"
        ELSE "ok"

check_md5_inverted(downloaded, y) ==
    LET correct_md5 == original_md5(y)
    IN  IF ~correct_md5.some THEN "err_no_md5"
        ELSE IF downloaded = correct_md5.val THEN "err_wrong_md5"
        ELSE "ok"

\* The comparison with the pinned digest: unwrap, then bail on a difference.
check_md5(downloaded, y) ==
    LET correct_md5 == original_md5(y)
    IN  IF ~correct_md5.some THEN "err_no_md5"
        ELSE IF downloaded # correct_md5.val THEN "err_wrong_md5"
        ELSE "ok"

\* extract_cursos_microdata: compare the digest with the pinned one.
verify_md5(p) ==
    /\ pc[p] = "verify"
    /\ UNCHANGED <<fs, inputDir, yr, ces, atStart, run, status, zip, names, bytes, cursos, counters, fleet, requested, touched>>
    /\ downloaded_md5' = [downloaded_md5 EXCEPT ![p] = md5_hex(clone(p))]
    /\ Stage(p, "verify")
    /\ LET checked == check_md5(downloaded_md5'[p], year(ces[p]))
       IN  IF checked # "ok"
           THEN Return(p, checked)
           ELSE Goto(p, "normalize")

\* extract_cursos_microdata: the String returned to download_data.
normalize(p) ==
    /\ pc[p] = "normalize"
    /\ UNCHANGED <<fs, inputDir, yr, ces, atStart, run, status, zip, names, bytes, downloaded_md5, counters, fleet, requested, touched>>
    /\ cursos' = [cursos EXCEPT ![p] = SomeBytes(iso_8559_1_to_utf8(bytes[p].val))]
    /\ Stage(p, "normalize")
    /\ Goto(p, "mkdir")

\* save_cursos: create_dir_all.
create_dir_all(p) ==
    /\ pc[p] = "mkdir"
    /\ UNCHANGED <<fs, yr, ces, atStart, run, locals, counters, fleet, requested, touched>>
    /\ \E done \in BOOLEAN :
         IF done \/ inputDir = "ok"
         THEN /\ inputDir' = "ok"
              /\ Stage(p, "persist_start")
              /\ Goto(p, "create")
         ELSE /\ UNCHANGED <<inputDir, trace>>
              /\ Return(p, "err_io")

\* save_cursos: fs::write creates or truncates the file ...
file_create(p) ==
    /\ pc[p] = "create"
    /\ UNCHANGED <<inputDir, yr, ces, atStart, run, locals, netCalls, trace, fleet, requested>>
    /\ touched' = [touched EXCEPT ![p] = @ \cup {resolve(save_path(year(ces[p])))}]
    /\ \E done \in BOOLEAN :
         IF done
         THEN /\ fs' = put_file(save_path(year(ces[p])), <<>>)
              /\ writeCalls' = [writeCalls EXCEPT ![p] = @ + 1]
              /\ Goto(p, "write")
         ELSE /\ UNCHANGED <<fs, writeCalls>>
              /\ Return(p, "err_io")

\* ... and then writes the whole String.
write_all(p) ==
    /\ pc[p] = "write"
    /\ UNCHANGED <<inputDir, yr, ces, atStart, run, locals, counters, fleet, requested>>
    /\ touched' = [touched EXCEPT ![p] = @ \cup {resolve(save_path(year(ces[p])))}]
    /\ \E done \in BOOLEAN :
         IF done
         THEN /\ fs' = put_file(save_path(year(ces[p])), cursos[p].val)
              /\ Stage(p, "persist_end")
              /\ Return(p, "ok")
         ELSE /\ UNCHANGED <<fs, trace>>
              /\ Return(p, "err_io")

ensure_data(p) ==
    \/ CesNew(p)
    \/ already_downloaded(p)
    \/ zip_send(p)
    \/ zip_response(p)
    \/ zip_hang(p)
    \/ archive_open(p)
    \/ select_names(p)
    \/ read_entry(p)
    \/ verify_md5(p)
    \/ normalize(p)
    \/ create_dir_all(p)
    \/ file_create(p)
    \/ write_all(p)

\* The caller runs ensure_data again on the same handle.
rerun(p) ==
    /\ pc[p] = "finished"
    /\ orch = "none"
    /\ run[p] < MaxRuns
    /\ outcome[p] # "panic_new"
    /\ pc' = [pc EXCEPT ![p] = "check"]
    /\ run' = [run EXCEPT ![p] = @ + 1]
    /\ outcome' = [outcome EXCEPT ![p] = "none"]
    /\ status' = [status EXCEPT ![p] = 0]
    /\ zip' = [zip EXCEPT ![p] = NotAnArchive]
    /\ names' = [names EXCEPT ![p] = <<>>]
    /\ bytes' = [bytes EXCEPT ![p] = NoBytes]
    /\ downloaded_md5' = [downloaded_md5 EXCEPT ![p] = ""]
    /\ cursos' = [cursos EXCEPT ![p] = NoBytes]
    /\ trace' = [trace EXCEPT ![p] = <<>>]
    /\ atStart' = [atStart EXCEPT ![p] = Found(year(ces[p]))]
    /\ UNCHANGED <<fs, inputDir, yr, ces, counters, hist, fleet, completed, requested, touched>>

(***************************************************************************)
(* ensure_all_data: spawn one task per year, then join them as they end.   *)
(* The loop of the source runs over 2009..2022; the model spawns the first *)
(* NumProcs years of it.                                                   *)
(***************************************************************************)
FleetYear_from_2008(p) == FirstYear + p - 2

FleetYear(p) == FirstYear + p - 1

spawn(p) ==
    /\ orch = "spawning"
    /\ pc[p] = "unspawned"
    /\ \A q \in Procs : q < p => pc[q] # "unspawned"
    /\ pc' = [pc EXCEPT ![p] = "ready"]
    /\ orch' = IF p = NumProcs THEN "joining" ELSE "spawning"
    /\ UNCHANGED <<fs, inputDir, yr, ces, atStart, run, locals, counters, trace, hist, outcome, completed, joined, requested, touched>>

\* Dropping the JoinSet aborts every task still running; a blocking write
\* that has begun runs to its end.
abort_none(q) == pc[q]

abort_all(q) ==
    IF pc[q] \in {"finished", "aborted", "detached"} THEN pc[q]
    ELSE IF pc[q] = "write" THEN "detached"
    ELSE "aborted"

join_next(p) ==
    /\ orch = "joining"
    /\ completed # <<>>
    /\ p = Head(completed)
    /\ completed' = Tail(completed)
    /\ IF outcome[p] = "ok"
       THEN /\ joined' = joined \cup {p}
            /\ UNCHANGED <<orch, pc>>
       ELSE /\ orch' = "panicked"
            /\ pc' = [q \in Procs |-> abort_all(q)]
            /\ UNCHANGED joined
    /\ UNCHANGED <<fs, inputDir, yr, ces, atStart, run, locals, counters, trace, hist, outcome, requested, touched>>

all_ok_early ==
    /\ orch = "joining"
    /\ joined # {}
    /\ orch' = "returned"
    /\ UNCHANGED <<fs, inputDir, pc, yr, ces, atStart, run, locals, counters, trace, hist, outcome, completed, joined, requested, touched>>

all_ok ==
    /\ orch = "joining"
    /\ completed = <<>>
    /\ joined = Procs
    /\ orch' = "returned"
    /\ UNCHANGED <<fs, inputDir, pc, yr, ces, atStart, run, locals, counters, trace, hist, outcome, completed, joined, requested, touched>>

detached_write(p) ==
    /\ pc[p] = "detached"
    /\ pc' = [pc EXCEPT ![p] = "aborted"]
    /\ \E done \in BOOLEAN :
         fs' = IF done THEN put_file(save_path(year(ces[p])), cursos[p].val)
               ELSE fs
    /\ UNCHANGED <<inputDir, yr, ces, atStart, run, locals, counters, trace, hist, outcome, completed, fleet, requested, touched>>

(***************************************************************************)
(* Initial states.                                                         *)
(***************************************************************************)
InitialFiles == {NoFile, File(<<>>), File(TamperedCursos)}

InitCommon(years) ==
    /\ inputDir \in {"missing", "ok", "denied"}
    /\ fs \in [{resolve(path(y)) : y \in years} ->
                 IF inputDir = "missing" THEN {NoFile} ELSE InitialFiles]
    /\ ces = [p \in Procs |-> [year |-> 0]]
    /\ atStart = [p \in Procs |-> NoFile]
    /\ run = [p \in Procs |-> 1]
    /\ status = [p \in Procs |-> 0]
    /\ zip = [p \in Procs |-> NotAnArchive]
    /\ names = [p \in Procs |-> <<>>]
    /\ bytes = [p \in Procs |-> NoBytes]
    /\ downloaded_md5 = [p \in Procs |-> ""]
    /\ cursos = [p \in Procs |-> NoBytes]
    /\ outcome = [p \in Procs |-> "none"]
    /\ netCalls = [p \in Procs |-> 0]
    /\ writeCalls = [p \in Procs |-> 0]
    /\ trace = [p \in Procs |-> <<>>]
    /\ hist = [p \in Procs |-> <<>>]
    /\ completed = <<>>
    /\ joined = {}
    /\ requested = [p \in Procs |-> {}]
    /\ touched = [p \in Procs |-> {}]

\* ensure_all_data, as main calls it.
Init ==
    /\ InitCommon({FleetYear(p) : p \in Procs})
    /\ yr = [p \in Procs |-> FleetYear(p)]
    /\ pc = [p \in Procs |-> "unspawned"]
    /\ orch = "spawning"

Next ==
    \/ \E p \in Procs : spawn(p)
    \/ \E p \in Procs : ensure_data(p)
    \/ \E p \in Procs : join_next(p)
    \/ all_ok
    \/ \E p \in Procs : detached_write(p)

Spec == Init /\ [][Next]_vars

\* One caller: Ces::new(y).ensure_data(), run up to MaxRuns times.
UnitYears == (MinYear - 1)..EndYear

InitUnit ==
    /\ \E y \in UnitYears :
         /\ InitCommon({y})
         /\ yr = [p \in Procs |-> y]
    /\ pc = [p \in Procs |-> IF p = 1 THEN "ready" ELSE "unspawned"]
    /\ orch = "none"

NextUnit ==
    \/ ensure_data(1)
    \/ rerun(1)

SpecUnit == InitUnit /\ [][NextUnit]_vars

\* One call of ensure_data that begins with no output file at all.
InitEmpty ==
    /\ InitUnit
    /\ inputDir \in {"missing", "ok"}
    /\ \A k \in DOMAIN fs : fs[k] = NoFile

NextEmpty == ensure_data(1)

SpecEmpty == InitEmpty /\ [][NextEmpty]_vars

\* Several callers (or several runs of the program) on the same year at once.
InitRace ==
    /\ \E y \in {MinYear, MinYear + 1} :
         /\ InitCommon({y})
         /\ yr = [p \in Procs |-> y]
    /\ pc = [p \in Procs |-> "ready"]
    /\ orch = "none"

NextRace == \E p \in Procs : ensure_data(p)

SpecRace == InitRace /\ [][NextRace]_vars

\* Ces::new alone, over every u16.
InitNew ==
    /\ \E y \in 0..MaxU16 :
         /\ InitCommon({y})
         /\ yr = [p \in Procs |-> y]
    /\ pc = [p \in Procs |-> IF p = 1 THEN "ready" ELSE "unspawned"]
    /\ orch = "none"

NextNew == CesNew(1)

SpecNew == InitNew /\ [][NextNew]_vars

(***************************************************************************)
(* Properties.                                                             *)
(***************************************************************************)
Range(f) == {f[i] : i \in DOMAIN f}

IsPrefix(t, u) == Len(t) <= Len(u) /\ t = SubSeq(u, 1, Len(t))

Started(p) == pc[p] \notin {"unspawned", "ready"} /\ outcome[p] # "panic_new"

\* The counters of call p when its current run began.
NetBefore(p) == IF run[p] = 1 THEN 0 ELSE hist[p][run[p] - 1].net

WritesBefore(p) == IF run[p] = 1 THEN 0 ELSE hist[p][run[p] - 1].wr

\* The run of p began with a file that the existence check can see.
Present(p) == Started(p) /\ inputDir # "denied" /\ atStart[p].exists

\* C1: ensure_all_data waits for every task: when it has ended (by returning
\* or by panicking), every task whose entry passed the digest check has run
\* to its own end, neither cancelled nor cut off before its write.
C1_FailureIsolation ==
    orch \in {"returned", "panicked"} =>
        \A p \in Procs : cursos[p].some => pc[p] = "finished"

Mismatch(p) ==
    /\ Started(p)
    /\ bytes[p].some
    /\ original_md5(year(ces[p])).some
    /\ md5_hex(bytes[p].val) # original_md5(year(ces[p])).val

\* C2: a selected entry whose MD5 differs from the digest pinned for the year
\* makes the pipeline return an error at the verification; it never
\* normalises and never writes, and the year has no output file.
C2_DigestEnforcement ==
    \A p \in Procs : Mismatch(p) =>
        /\ pc[p] \in {"verify", "finished"}
        /\ pc[p] = "finished" => outcome[p] = "err_wrong_md5"
        /\ ~cursos[p].some
        /\ Range(trace[p]) \cap {"normalize", "persist_start", "persist_end"} = {}
        /\ writeCalls[p] = 0
        /\ ~file_at(path(year(ces[p]))).exists

C2_Witness ==
    \E p \in Procs : Mismatch(p) /\ pc[p] = "finished" /\ outcome[p] = "err_wrong_md5"

\* C3: a call whose first run found no file and succeeded has sent exactly
\* one request and created exactly one file however many runs follow; every
\* later run finds the file and returns Ok without leaving the check.
C3_Idempotence ==
    \A p \in Procs :
        (Len(hist[p]) >= 1 /\ ~hist[p][1].start.exists /\ hist[p][1].outcome = "ok") =>
            /\ hist[p][1].net = 1 /\ hist[p][1].wr = 1
            /\ netCalls[p] = 1 /\ writeCalls[p] = 1
            /\ run[p] >= 2 => pc[p] \in {"check", "finished"} /\ atStart[p].exists
            /\ \A i \in 2..Len(hist[p]) :
                 /\ hist[p][i].outcome = "ok"
                 /\ hist[p][i].net = 1 /\ hist[p][i].wr = 1

C3_Witness ==
    \E p \in Procs :
        /\ Len(hist[p]) = 2
        /\ ~hist[p][1].start.exists
        /\ hist[p][1].outcome = "ok"
        /\ hist[p][2].outcome = "ok"

C5_AtomicPersistence ==
    \A p \in Procs, q \in Procs :
        (p # q /\ pc[p] = "check" /\ pc[q] = "write" /\ year(ces[p]) = year(ces[q]))
            => ~try_exists(path(year(ces[p]))).val

StageOrder ==
    <<"fetch_start", "fetch_end", "select", "verify", "normalize", "persist_start", "persist_end">>

\* C6: the stages of one pipeline happen in the order fetch, select, verify,
\* normalise, persist: selection works on a received body, the digest is
\* taken over the selected entry's raw bytes before any normalisation, and a
\* write begins only with the whole normalised text in hand.
C6_StageOrder ==
    \A p \in Procs :
        /\ IsPrefix(trace[p], StageOrder)
        /\ "select" \in Range(trace[p]) => status[p] # 0 /\ pc[p] # "awaiting"
        /\ downloaded_md5[p] # "" =>
             /\ bytes[p].some
             /\ bytes[p].val = by_name(zip[p], Head(names[p])).data
             /\ downloaded_md5[p] = md5_hex(by_name(zip[p], Head(names[p])).data)
        /\ pc[p] = "normalize" => ~cursos[p].some /\ downloaded_md5[p] # ""
        /\ cursos[p].some =>
             /\ downloaded_md5[p] = original_md5(year(ces[p])).val
             /\ cursos[p].val = iso_8559_1_to_utf8(bytes[p].val)
        /\ pc[p] \in {"mkdir", "create", "write", "detached"} => cursos[p].some
        /\ writeCalls[p] > 0 => cursos[p].some

C6_Witness == \E p \in Procs : trace[p] = StageOrder

\* C7: Ces::new panics for a year below 2009 and otherwise returns a handle
\* whose year() is the input; either way it sends nothing and touches no
\* file.
C7_Construction ==
    [][\A p \in Procs : (pc[p] = "ready" /\ pc'[p] # "ready") =>
          /\ fs' = fs /\ inputDir' = inputDir
          /\ netCalls' = netCalls /\ writeCalls' = writeCalls
          /\ IF yr[p] < 2009
             THEN pc'[p] = "finished" /\ outcome'[p] = "panic_new"
             ELSE pc'[p] = "check" /\ year(ces'[p]) = yr[p]]_vars

C7_Witness ==
    \E p \in Procs : yr[p] = 2009 /\ pc[p] = "check" /\ year(ces[p]) = 2009

\* C8: a response that is not a 2xx ends the fetch with a fetch error; its
\* body never reaches the archive selection.
C8_FetchFailure ==
    \A p \in Procs :
        (status[p] # 0 /\ status[p] \notin 200..299) =>
            pc[p] = "finished" /\ outcome[p] = "err_fetch"

NoDigest(p) == Started(p) /\ year(ces[p]) > 2021

\* C9: for a year with no pinned digest the pipeline never normalises or
\* writes; once an entry has been read it ends at the verification with the
\* missing-digest error, and a run that began without a file never returns Ok.
C9_MissingDigest ==
    \A p \in Procs : NoDigest(p) =>
        /\ ~cursos[p].some
        /\ Range(trace[p]) \cap {"normalize", "persist_start", "persist_end"} = {}
        /\ writeCalls[p] = 0
        /\ file_at(path(year(ces[p]))) = atStart[p]
        /\ bytes[p].some =>
             /\ pc[p] \in {"verify", "finished"}
             /\ pc[p] = "finished" => outcome[p] = "err_no_md5"
        /\ (pc[p] = "finished" /\ ~Present(p)) => outcome[p] # "ok"

C9_Witness ==
    \E p \in Procs : year(ces[p]) = 2022 /\ pc[p] = "finished" /\ outcome[p] = "err_no_md5"

Matching(archive) ==
    {i \in 1..Len(archive.entries) :
        /\ contains(archive.entries[i].name, MICRODATA_PREFIX)
        /\ contains(archive.entries[i].name, name)}

Selected(p) == zip[p].zip /\ "select" \in Range(trace[p])

\* C10: of an archive with exactly one entry whose name contains both
\* MICRODADOS_CADASTRO and CURSOS, the selection takes that entry and reads
\* exactly its bytes; of an archive with no such entry, it fails with the
\* not-found error and nothing is written.
C10_Selection ==
    \A p \in Procs : Selected(p) =>
        /\ Cardinality(Matching(zip[p])) = 1 =>
             LET i == CHOOSE j \in Matching(zip[p]) : TRUE
             IN  /\ names[p] = <<zip[p].entries[i].name>>
                 /\ outcome[p] # "err_not_found"
                 /\ bytes[p].some => bytes[p].val = zip[p].entries[i].data
        /\ Matching(zip[p]) = {} =>
             /\ pc[p] = "finished" /\ outcome[p] = "err_not_found"
             /\ ~bytes[p].some /\ ~cursos[p].some
             /\ writeCalls[p] = WritesBefore(p)
             /\ ~file_at(path(year(ces[p]))).exists

C10_Witness ==
    \E p \in Procs :
        /\ Selected(p)
        /\ Cardinality(Matching(zip[p])) = 1
        /\ Len(zip[p].entries) = 2
        /\ bytes[p].some
        /\ pc[p] = "finished" /\ outcome[p] = "ok"

C10_WitnessNone ==
    \E p \in Procs :
        /\ Selected(p)
        /\ zip[p].entries[Len(zip[p].entries)].name = LowerName
        /\ outcome[p] = "err_not_found"

(***************************************************************************)
(* iso_8559_1_to_utf8 alone: every single byte, and every sequence of up   *)
(* to MaxLen bytes drawn from both halves of the byte range.               *)
(***************************************************************************)
SampleBytes == {0, 59, 127, 128, 191, 192, 233, 255}

NormInputs ==
    {<<c>> : c \in 0..255} \cup UNION {[1..k -> SampleBytes] : k \in 0..MaxLen}

InitNorm ==
    /\ \E b \in NormInputs :
         bytes = [p \in Procs |-> IF p = 1 THEN SomeBytes(b) ELSE NoBytes]
    /\ inputDir = "missing"
    /\ fs = [q \in {resolve(path(MinYear))} |-> NoFile]
    /\ yr = [p \in Procs |-> MinYear]
    /\ ces = [p \in Procs |-> [year |-> MinYear]]
    /\ atStart = [p \in Procs |-> NoFile]
    /\ run = [p \in Procs |-> 1]
    /\ status = [p \in Procs |-> 0]
    /\ zip = [p \in Procs |-> NotAnArchive]
    /\ names = [p \in Procs |-> <<>>]
    /\ downloaded_md5 = [p \in Procs |-> ""]
    /\ cursos = [p \in Procs |-> NoBytes]
    /\ outcome = [p \in Procs |-> "none"]
    /\ netCalls = [p \in Procs |-> 0]
    /\ writeCalls = [p \in Procs |-> 0]
    /\ trace = [p \in Procs |-> <<>>]
    /\ hist = [p \in Procs |-> <<>>]
    /\ completed = <<>>
    /\ joined = {}
    /\ requested = [p \in Procs |-> {}]
    /\ touched = [p \in Procs |-> {}]
    /\ pc = [p \in Procs |-> IF p = 1 THEN "normalize" ELSE "unspawned"]
    /\ orch = "none"

NextNorm == normalize(1)

SpecNorm == InitNorm /\ [][NextNorm]_vars

\* The code points of a String, as str::chars decodes its UTF-8 bytes
\* (-1 for a byte sequence that is not the encoding of a char below 256).
RECURSIVE chars(_)
chars(str) ==
    IF str = <<>> THEN <<>>
    ELSE IF str[1] < 128 THEN <<str[1]>> \o chars(Tail(str))
    ELSE IF /\ Len(str) >= 2
            /\ str[1] \in {194, 195}
            /\ str[2] \in 128..191
         THEN <<(str[1] - 192) * 64 + (str[2] - 128)>> \o chars(Tail(Tail(str)))
         ELSE <<-1>>

\* C11: iso_8559_1_to_utf8 yields, for every byte sequence (the empty one
\* included), a String of as many chars as there are bytes, the i-th char
\* being the code point equal to the i-th byte; no other input of the model
\* yields the same String.
C11_Normalization ==
    \A p \in Procs : cursos[p].some =>
        /\ Len(chars(cursos[p].val)) = Len(bytes[p].val)
        /\ \A i \in 1..Len(bytes[p].val) : chars(cursos[p].val)[i] = bytes[p].val[i]
        /\ \A b \in NormInputs :
             iso_8559_1_to_utf8(b) = cursos[p].val => b = bytes[p].val

C11_Witness ==
    \E p \in Procs :
        /\ cursos[p].some
        /\ bytes[p].val = <<233, 59>>
        /\ cursos[p].val = <<195, 169, 59>>

C11_WitnessEmpty ==
    \E p \in Procs : cursos[p].some /\ bytes[p].val = <<>> /\ cursos[p].val = <<>>

\* The four decimal digits of a year, written out place by place.
FourDigits(y) ==
    LET d(k) == <<"0","1","2","3","4","5","6","7","8","9">>[k + 1]
    IN  <<d(y \div 1000), d((y \div 100) % 10), d((y \div 10) % 10), d(y % 10)>>

Template(y) ==
    <<"https://download.inep.gov.br/microdados/microdados_censo_da_educacao_superior_",
      FourDigits(y), ".zip">>

\* url over the years of the program, the year 2011 of the unit test included.
UrlOfEveryYear ==
    /\ url(2011) =
         <<"https://download.inep.gov.br/microdados/microdados_censo_da_educacao_superior_",
           <<"2", "0", "1", "1">>, ".zip">>
    /\ \A y1, y2 \in AllFirst..(AllEnd - 1) : y1 # y2 => url(y1) # url(y2)
    /\ \A y \in AllFirst..(AllEnd - 1) : url(y) = Template(y)

\* C12: the URL a pipeline requests is the fixed template with its own
\* year's decimal digits in it (for 2011 it ends in ..._2011.zip); two
\* different years have different URLs, and no pipeline requests another
\* year's URL.
C12_UrlTemplate ==
    /\ \A p \in Procs : requested[p] \subseteq {Template(yr[p])}
    /\ \A p, q \in Procs : p # q => requested[p] \cap requested[q] = {}
    /\ UrlOfEveryYear

C12_Witness ==
    \E p, q \in Procs :
        /\ requested[p] = {Template(2009)}
        /\ requested[q] = {Template(2010)}
        /\ yr[p] = 2009 /\ yr[q] = 2010
        /\ status[p] # 0 /\ status[q] # 0

Failed(p) == pc[p] = "finished" /\ outcome[p] # "ok"

Stopped(p) == pc[p] \in {"finished", "aborted", "detached"}

C13_State ==
    /\ orch \in {"spawning", "joining", "returned", "panicked"}
    /\ orch = "returned" => \A p \in Procs : ~Failed(p)
    /\ orch = "panicked" =>
         /\ \E p \in Procs : Failed(p) /\ p \notin joined
         /\ \A q \in joined : outcome[q] = "ok"
         /\ \A q \in Procs : Stopped(q)

C13_Step ==
    /\ (orch = "joining" /\ completed # <<>> /\ completed' = Tail(completed)
          /\ outcome[Head(completed)] # "ok")
       => orch' = "panicked"
    /\ orch = "panicked" =>
         UNCHANGED <<orch, outcome, trace, netCalls, writeCalls, completed, joined>>

NoLaterStage(p) ==
    LET ran == Range(trace[p])
    IN  CASE outcome[p] = "err_stat" -> trace[p] = <<>>
          [] outcome[p] = "err_fetch" -> ran \subseteq {"fetch_start"}
          [] outcome[p] \in {"err_archive", "err_not_found", "err_read"} ->
               ran \subseteq {"fetch_start", "fetch_end", "select"}
          [] outcome[p] \in {"err_no_md5", "err_wrong_md5"} ->
               ran \subseteq {"fetch_start", "fetch_end", "select", "verify"}
          [] outcome[p] = "err_io" -> "persist_end" \notin ran
          [] OTHER -> FALSE

C14_State ==
    \A p \in Procs :
        /\ netCalls[p] - NetBefore(p) <= 1
        /\ writeCalls[p] - WritesBefore(p) <= 1
        /\ \A i, j \in 1..Len(trace[p]) : i # j => trace[p][i] # trace[p][j]
        /\ (Failed(p) /\ outcome[p] # "panic_new") =>
             /\ NoLaterStage(p)
             /\ outcome[p] # "err_io" => writeCalls[p] = WritesBefore(p)
             /\ outcome[p] = "err_stat" => netCalls[p] = NetBefore(p)

C14_Step ==
    \A p \in Procs : (Failed(p) /\ run'[p] = run[p]) =>
        /\ pc'[p] = "finished"
        /\ UNCHANGED <<trace, netCalls, writeCalls, fs, outcome>>

\* C14: within one invocation of ensure_data no stage runs twice (at most
\* one request is sent and at most one file write is begun), and a failed
\* invocation has run no stage after the one that failed and runs none
\* afterwards.
C14_NoRetry == [](C14_State) /\ [][C14_Step]_vars

C14_Witness ==
    \E p \in Procs :
        /\ run[p] = MaxRuns
        /\ Failed(p) /\ outcome[p] = "err_fetch"
        /\ hist[p][1].outcome = "err_fetch"
        /\ netCalls[p] = MaxRuns

C14_WitnessLate ==
    \E p \in Procs :
        /\ Failed(p) /\ outcome[p] = "err_wrong_md5"
        /\ netCalls[p] - NetBefore(p) = 1

OwnPath(p) == <<"input", [prefix |-> "cursos.", year |-> yr[p], suffix |-> ".csv"]>>

Spawned == {p \in Procs : pc[p] # "unspawned"}

PathOfEveryYear ==
    /\ FirstYear..(EndYear - 1) = 2009..2021
    /\ \A y1, y2 \in 2009..2021 : y1 # y2 => resolve(path(y1)) # resolve(path(y2))
    /\ \A y \in 2009..2021 : resolve(save_path(y)) = resolve(path(y))

\* C15: the tasks of the fleet carry pairwise different years of 2009..2021,
\* one task for each year of the loop in turn; the output path is injective
\* in the year, the check and the write of a task use one and the same path,
\* and a task checks and writes no path but the one of its own year, so no
\* path is touched by two tasks.
C15_DistinctPaths ==
    /\ \A p \in Spawned : yr[p] = FirstYear + p - 1 /\ yr[p] \in 2009..2021
    /\ \A p \in Spawned : Started(p) /\ pc[p] # "aborted" => year(ces[p]) = yr[p]
    /\ \A p, q \in Procs : p # q => yr[p] # yr[q]
    /\ PathOfEveryYear
    /\ \A p \in Procs : touched[p] \subseteq {OwnPath(p)}
    /\ \A p, q \in Procs : p # q => touched[p] \cap touched[q] = {}

\* Two tasks are inside their writes at the same time, each on its own file.
C15_Witness ==
    \E p, q \in Procs :
        /\ p # q
        /\ pc[p] = "write" /\ pc[q] = "write"
        /\ touched[p] = {OwnPath(p)} /\ touched[q] = {OwnPath(q)}
        /\ file_at(OwnPath(p)).exists /\ file_at(OwnPath(q)).exists

\* The tasks end in either order.
C15_WitnessOrder ==
    /\ Len(completed) >= 2
    /\ completed[1] > completed[2]

FirstMatch(archive) ==
    archive.entries[CHOOSE i \in Matching(archive) : \A j \in Matching(archive) : i <= j]

SeveralMatch(p) == Selected(p) /\ Cardinality(Matching(zip[p])) >= 2

\* C16: of an archive with several entries passing both name filters, the
\* only entry ever read is the first of them in the archive's order; its text
\* is what gets normalised when its digest is the pinned one, and when it is
\* not the year fails with the digest error, nothing of a later matching
\* entry being read, normalised or written.
C16_FirstMatchWins ==
    \A p \in Procs : SeveralMatch(p) =>
        LET first == FirstMatch(zip[p])
            pinned == original_md5(year(ces[p]))
        IN  /\ bytes[p].some => bytes[p].val = first.data
            /\ downloaded_md5[p] # "" => downloaded_md5[p] = md5_hex(first.data)
            /\ cursos[p].some =>
                 /\ pinned.some /\ md5_hex(first.data) = pinned.val
                 /\ cursos[p].val = iso_8559_1_to_utf8(first.data)
            /\ (pinned.some /\ md5_hex(first.data) # pinned.val) =>
                 /\ pc[p] \in {"read", "verify", "finished"}
                 /\ pc[p] = "finished" => outcome[p] = "err_wrong_md5"
                 /\ writeCalls[p] = WritesBefore(p)
                 /\ file_at(path(year(ces[p]))) = atStart[p]

\* The first match is tampered and a later one is genuine: the year fails.
C16_Witness ==
    \E p \in Procs :
        /\ SeveralMatch(p)
        /\ FirstMatch(zip[p]).data = TamperedCursos
        /\ \E i \in Matching(zip[p]) : zip[p].entries[i].data = OriginalCursos(year(ces[p]))
        /\ pc[p] = "finished" /\ outcome[p] = "err_wrong_md5"
        /\ ~file_at(path(year(ces[p]))).exists

\* The first match is genuine and a later one is tampered: the year succeeds.
C16_WitnessGood ==
    \E p \in Procs :
        /\ SeveralMatch(p)
        /\ FirstMatch(zip[p]).data = OriginalCursos(year(ces[p]))
        /\ pc[p] = "finished" /\ outcome[p] = "ok"

\* C17: while one year's request hangs, ensure_all_data keeps waiting for it
\* (it neither returns nor panics) and no task is cancelled: the hung task
\* stays hung and every other task goes on to its own end.
C17_HungIsolation ==
    [][(\E q \in Procs : pc[q] = "hung") =>
          /\ orch' \in {"spawning", "joining"}
          /\ \A p \in Procs : pc'[p] \notin {"aborted", "detached"}]_vars

\* C18: ensure_all_data has returned Ok only when every task of the fleet
\* has been joined with an Ok result; every year of the fleet then has a file
\* at its output path.
C18_OkMeansAll ==
    orch = "returned" =>
        /\ joined = Procs
        /\ completed = <<>>
        /\ \A p \in Procs :
             /\ pc[p] = "finished" /\ outcome[p] = "ok"
             /\ file_at(<<"input", [prefix |-> "cursos.", year |-> FirstYear + p - 1, suffix |-> ".csv"]>>).exists

C18_Witness ==
    /\ orch = "returned"
    /\ \E p, q \in Procs :
         /\ writeCalls[p] = 1 /\ ~atStart[p].exists
         /\ writeCalls[q] = 0 /\ atStart[q].exists

EarlyFailures ==
    {"err_fetch", "err_archive", "err_not_found", "err_read", "err_no_md5", "err_wrong_md5"}

Verified(p) ==
    /\ Started(p)
    /\ status[p] # 0
    /\ {"fetch_end", "select", "verify"} \subseteq Range(trace[p])
    /\ names[p] # <<>>
    /\ contains(names[p][1], MICRODATA_PREFIX) /\ contains(names[p][1], name)
    /\ bytes[p].some
    /\ original_md5(yr[p]).some
    /\ md5_hex(bytes[p].val) = original_md5(yr[p]).val
    /\ downloaded_md5[p] = original_md5(yr[p]).val

\* C19: begun with no output file, a year has a file at its path only when
\* its pipeline has received a body, selected an entry whose name passes both
\* filters and found the MD5 of that entry equal to the digest pinned for the
\* year; a pipeline that failed at the fetch, the archive, the selection or
\* the digest has written nothing and its year has no file.
C19_FileImpliesVerified ==
    /\ \A k \in DOMAIN fs : fs[k].exists =>
         \E p \in Procs : k = OwnPath(p) /\ Verified(p)
    /\ \A p \in Procs : outcome[p] \in EarlyFailures =>
         /\ writeCalls[p] = 0
         /\ ~file_at(OwnPath(p)).exists

C19_Witness ==
    \E p \in Procs :
        /\ file_at(OwnPath(p)) = File(iso_8559_1_to_utf8(OriginalCursos(yr[p])))
        /\ outcome[p] = "ok" /\ writeCalls[p] = 1

C19_WitnessFailed ==
    \E p \in Procs : outcome[p] = "err_no_md5" /\ ~file_at(OwnPath(p)).exists

ConfigOfEveryYear ==
    /\ FirstYear..(EndYear - 1) = 2009..2021
    /\ {year(all[i]) : i \in DOMAIN all} = FirstYear..(EndYear - 1)
    /\ Len(all) = 13
    /\ \A y \in FirstYear..(EndYear - 1) : ~new(y).panics /\ original_md5(y).some

\* C20: the years of the spawning loop are 2009..2021, the very years of
\* Ces::all(); each of them passes Ces::new and has a digest in the pinned
\* table, so no task of the fleet ends with the construction panic or with
\* the missing-digest error.
C20_StaticConfig ==
    /\ ConfigOfEveryYear
    /\ \A p \in Procs :
         /\ yr[p] \in FirstYear..(EndYear - 1)
         /\ outcome[p] \notin {"panic_new", "err_no_md5"}
         /\ Started(p) /\ pc[p] # "aborted" => year(ces[p]) = yr[p]
         /\ downloaded_md5[p] # "" => check_md5(downloaded_md5[p], year(ces[p])) # "err_no_md5"

C20_Witness ==
    /\ orch = "returned"
    /\ \A p \in Procs :
         /\ outcome[p] = "ok" /\ writeCalls[p] = 1
         /\ downloaded_md5[p] = original_md5(yr[p]).val

====
